---- MODULE Spec2Model ----
(***************************************************************************)
(* Magnes / CursorHelper: the cursor-shape classifier                      *)
(* (determineResizeDirection), the cursor query facade (getCursorType,     *)
(* getCurrentCursorType) and the visibility controller (hideCursor,        *)
(* showCursor, notTodayDock) of cursorhelper.c.                            *)
(***************************************************************************)
EXTENDS Integers, Sequences, FiniteSets

\* ------------------------------------------------------------------------
\* Program constants
\* ------------------------------------------------------------------------

\* CursorType enumerators (CursorHelper-Bridging-Header.h, cursorhelper.c).
ARROW == 0
IBEAM == 1
HORIZONTAL_RESIZE == 2
VERTICAL_RESIZE == 3
DIAGONAL_RESIZE == 4
POINTER == 5
\* (OTHER is a reserved word of TLA+.)
OTHER_ == 6

\* The named categories the enumeration declares.
CursorType == {ARROW, IBEAM, HORIZONTAL_RESIZE, VERTICAL_RESIZE,
               DIAGONAL_RESIZE, POINTER, OTHER_}

\* CGError value the code compares every platform status against.
kCGErrorSuccess == 0

\* A non-success CGError (any value other than kCGErrorSuccess behaves alike).
kCGErrorFailure == 1000

\* `return 1;` on the three failure paths of getCursorType.
FailureReturn == 1

\* `alpha > 10`
AlphaThreshold == 10

\* `idx = (y * width + x) * 4`
BytesPerPixel == 4

\* `width == 23 && height == 22`
IBeamWidth == 23
IBeamHeight == 22

\* `frac2 == 0.04`, the decimal literal 4/100.
DiagFracNum == 4
DiagFracDen == 100

\* `switch (maxInAnyRow)` labels and `maxInAnyCol == 13`.
RowCaseVertical == 6
RowCaseHorizontalA == 8
RowCaseHorizontalB == 10
RowCasePointer == 14
ColCasePointer == 13

\* ------------------------------------------------------------------------
\* Numeric conversions
\* ------------------------------------------------------------------------

\* (int)v for a CGFloat v = q[1]/q[2] with q[2] > 0: truncation toward zero.
IntCast(q) ==
    IF q[1] >= 0 THEN q[1] \div q[2] ELSE -((-q[1]) \div q[2])

\* Significand bits of a double (IEEE 754 binary64).
DoubleBits == 53

\* The n quotient bits that follow a remainder r < b in the long division
\* by b, and the remainder left after them.
RECURSIVE QuotientBits(_, _, _)
QuotientBits(r, b, n) ==
    IF n = 0 THEN << >>
    ELSE IF 2 * r >= b THEN << 1 >> \o QuotientBits(2 * r - b, b, n - 1)
         ELSE << 0 >> \o QuotientBits(2 * r, b, n - 1)

RECURSIVE RemainderAfter(_, _, _)
RemainderAfter(r, b, n) ==
    IF n = 0 THEN r
    ELSE IF 2 * r >= b THEN RemainderAfter(2 * r - b, b, n - 1)
         ELSE RemainderAfter(2 * r, b, n - 1)

\* A bit string plus one; all ones wrap to all zeros.
RECURSIVE PlusOne(_)
PlusOne(bits) ==
    IF bits = << >> THEN << >>
    ELSE LET n == Len(bits)
         IN  IF bits[n] = 0 THEN SubSeq(bits, 1, n - 1) \o << 1 >>
             ELSE PlusOne(SubSeq(bits, 1, n - 1)) \o << 0 >>

\* Binary exponent of a / b for a, b > 0: the e with 2^e <= a / b < 2^(e+1),
\* returned with the operands scaled so that b <= a < 2 * b.
RECURSIVE Normalised(_, _, _)
Normalised(a, b, e) ==
    IF a < b THEN Normalised(2 * a, b, e - 1)
    ELSE IF a >= 2 * b THEN Normalised(a, 2 * b, e + 1)
    ELSE << a, b, e >>

\* a / b for a, b > 0 rounded to n significand bits, to nearest, ties to
\* even: <<exponent, significand bits>>. Operands stay far below 2^29 here,
\* so no step overflows, and no quotient is subnormal or infinite.
RoundedQuotient(a, b, n) ==
    LET nz == Normalised(a, b, 0)
        r0 == nz[1] - nz[2]
        kept == << 1 >> \o QuotientBits(r0, nz[2], n - 1)
        rest == RemainderAfter(r0, nz[2], n - 1)
        guard == 2 * rest >= nz[2]
        sticky == (IF guard THEN 2 * rest - nz[2] ELSE 2 * rest) # 0
        up == guard /\ (sticky \/ kept[n] = 1)
        bumped == PlusOne(kept)
    IN  IF ~up THEN << nz[3], kept >>
        ELSE IF bumped[1] = 1 THEN << nz[3], bumped >>
        ELSE << nz[3] + 1, << 1 >> \o SubSeq(bumped, 1, n - 1) >>

Abs(i) == IF i < 0 THEN -i ELSE i

\* (double)a / (double)b for ints a, b: the conversions are exact, the
\* division is correctly rounded; x / 0 is an infinity and 0 / 0 a NaN.
DoubleDiv(a, b) ==
    IF b = 0
    THEN (IF a = 0 THEN [kind |-> "nan"]
          ELSE [kind |-> "inf", neg |-> (a < 0)])
    ELSE IF a = 0 THEN [kind |-> "zero"]
    ELSE [kind |-> "finite", neg |-> ((a < 0) # (b < 0)),
          value |-> RoundedQuotient(Abs(a), Abs(b), DoubleBits)]

\* `x == y` on doubles: false when either is a NaN.
DoubleEq(x, y) == x.kind # "nan" /\ y.kind # "nan" /\ x = y

\* The double a decimal literal num/den denotes: the nearest one.
DoubleLiteral(num, den) == DoubleDiv(num, den)

\* The literals `0`, `1` and `0.04` as doubles.
DoubleZero == DoubleLiteral(0, 1)
DoubleOne == DoubleLiteral(1, 1)
DiagFrac == DoubleLiteral(DiagFracNum, DiagFracDen)

\* ------------------------------------------------------------------------
\* determineResizeDirection
\* ------------------------------------------------------------------------

\* Faulty variant: `alpha >= 10`.
IsOpaqueAtThreshold(px, w, x, y) ==
    px[(y * w + x) * BytesPerPixel] >= AlphaThreshold

\* `pixelData[idx] > 10` for pixel (x, y); px is the memory the pointer
\* addresses, a function from byte offset to byte.
IsOpaque(px, w, x, y) == px[(y * w + x) * BytesPerPixel] > AlphaThreshold

\* First traversal: <<totalCount, diagCount1, diagCount2>> of row y from
\* column x on, and of the rows from y on.
RECURSIVE DiagScanRow(_, _, _, _)
DiagScanRow(px, w, y, x) ==
    IF x >= w THEN <<0, 0, 0>>
    ELSE LET rest == DiagScanRow(px, w, y, x + 1)
         IN  IF IsOpaque(px, w, x, y)
             THEN << rest[1] + 1,
                     IF x = y THEN rest[2] + 1 ELSE rest[2],
                     IF x = (w - y - 1) THEN rest[3] + 1 ELSE rest[3] >>
             ELSE rest

RECURSIVE DiagScan(_, _, _, _)
DiagScan(px, w, h, y) ==
    IF y >= h THEN <<0, 0, 0>>
    ELSE LET row == DiagScanRow(px, w, y, 0)
             rest == DiagScan(px, w, h, y + 1)
         IN  << row[1] + rest[1], row[2] + rest[2], row[3] + rest[3] >>

\* Faulty variant: the `frac1 == 0` test dropped.
DiagonalMatchAnyFrac1(counts) ==
    /\ counts[1] > 0
    /\ DoubleEq(DoubleDiv(counts[3], counts[1]), DiagFrac)

\* `if (totalCount > 0) { ... if (frac1 == 0 && frac2 == 0.04) ... }`
DiagonalMatch(counts) ==
    /\ counts[1] > 0
    /\ DoubleEq(DoubleDiv(counts[2], counts[1]), DoubleZero)
    /\ DoubleEq(DoubleDiv(counts[3], counts[1]), DiagFrac)

\* Second traversal: rowCounts[y] and colCounts[x].
RECURSIVE RowCount(_, _, _, _)
RowCount(px, w, y, x) ==
    IF x >= w THEN 0
    ELSE (IF IsOpaque(px, w, x, y) THEN 1 ELSE 0) + RowCount(px, w, y, x + 1)

RECURSIVE ColCount(_, _, _, _, _)
ColCount(px, w, h, x, y) ==
    IF y >= h THEN 0
    ELSE (IF IsOpaque(px, w, x, y) THEN 1 ELSE 0) + ColCount(px, w, h, x, y + 1)

\* `if (rowCounts[y] > maxInAnyRow) maxInAnyRow = rowCounts[y];` over the
\* rows from y on, maxInAnyRow starting at 0.
RECURSIVE MaxInAnyRow(_, _, _, _)
MaxInAnyRow(px, w, h, y) ==
    IF y >= h THEN 0
    ELSE LET c == RowCount(px, w, y, 0)
             m == MaxInAnyRow(px, w, h, y + 1)
         IN  IF c > m THEN c ELSE m

\* `if (colCounts[x] > maxInAnyCol) maxInAnyCol = colCounts[x];` over the
\* columns from x on, maxInAnyCol starting at 0.
RECURSIVE MaxInAnyCol(_, _, _, _)
MaxInAnyCol(px, w, h, x) ==
    IF x >= w THEN 0
    ELSE LET c == ColCount(px, w, h, x, 0)
             m == MaxInAnyCol(px, w, h, x + 1)
         IN  IF c > m THEN c ELSE m

\* Faulty variant: `case 14` tests maxInAnyRow again instead of maxInAnyCol.
RowColSwitchRowForCol(maxRow, maxCol) ==
    CASE maxRow = RowCaseVertical -> VERTICAL_RESIZE
      [] maxRow = RowCaseHorizontalA -> HORIZONTAL_RESIZE
      [] maxRow = RowCaseHorizontalB -> HORIZONTAL_RESIZE
      [] maxRow = RowCasePointer ->
            IF maxRow = ColCasePointer THEN POINTER ELSE VERTICAL_RESIZE
      [] OTHER -> OTHER_

\* `switch (maxInAnyRow) { ... } return OTHER;`
RowColSwitch(maxRow, maxCol) ==
    CASE maxRow = RowCaseVertical -> VERTICAL_RESIZE
      [] maxRow = RowCaseHorizontalA -> HORIZONTAL_RESIZE
      [] maxRow = RowCaseHorizontalB -> HORIZONTAL_RESIZE
      [] maxRow = RowCasePointer ->
            IF maxCol = ColCasePointer THEN POINTER ELSE VERTICAL_RESIZE
      [] OTHER -> OTHER_

\* What follows the first traversal, counts being <<totalCount, diagCount1,
\* diagCount2>>: the result and the locals left behind. divisors lists the
\* denominators of the divisions performed; the second traversal does not
\* run when the diagonal test returns.
AfterDiagScan(px, w, h, counts) ==
    IF DiagonalMatch(counts)
    THEN [ result |-> DIAGONAL_RESIZE, counts |-> counts,
           divisors |-> << counts[1], counts[1] >>,
           maxInAnyRow |-> 0, maxInAnyCol |-> 0, phase |-> "diagonal" ]
    ELSE LET maxRow == MaxInAnyRow(px, w, h, 0)
             maxCol == MaxInAnyCol(px, w, h, 0)
         IN  [ result |-> RowColSwitch(maxRow, maxCol), counts |-> counts,
               divisors |-> IF counts[1] > 0 THEN << counts[1], counts[1] >>
                            ELSE << >>,
               maxInAnyRow |-> maxRow, maxInAnyCol |-> maxCol,
               phase |-> "rowcol" ]

\* The whole function.
determineResizeDirectionRun(px, w, h) ==
    AfterDiagScan(px, w, h, DiagScan(px, w, h, 0))

determineResizeDirection(px, w, h) == determineResizeDirectionRun(px, w, h).result

\* ------------------------------------------------------------------------
\* State
\* ------------------------------------------------------------------------

VARIABLES
    \* getCursorType / getCurrentCursorType
    pc,          \* position in getCurrentCursorType -> getCursorType
    err,         \* CGError err
    dataSize,    \* int dataSize
    pixelData,   \* uint8_t *pixelData: "NULL" or "block"
    heap,        \* the malloc'ed block: [state, len, bytes]
    cursorSize,  \* CGSize cursorSize, each coordinate a rational <<num, den>>
    width,       \* int width
    height,      \* int height
    ret,         \* value getCursorType returns
    type,        \* CursorType type of getCurrentCursorType
    events,      \* what this run did, in order
    stderrLines, \* fprintf(stderr, ...) lines of this run
    \* determineResizeDirection called on its own
    cpc, cPixelData, cWidth, cHeight, cResult,
    totalCount, diagCount1, diagCount2, divisors, maxInAnyRow, maxInAnyCol,
    \* hideCursor / showCursor / notTodayDock and the window server
    vpc,         \* the operation that ran last
    error,       \* CGError error
    hideCount,   \* the display's hide-cursor count
    setsCursorInBackground, \* the connection property
    dockOverride,           \* the dock cursor override flag
    suppression, \* local-events suppression interval last set
    status,      \* int the operation returned
    calls,       \* platform calls of the last operation, in order
    vLog         \* stderr lines of the last operation

facadeVars == << pc, err, dataSize, pixelData, heap, cursorSize, width, height,
                 ret, type, events, stderrLines >>
classifierVars == << cpc, cPixelData, cWidth, cHeight, cResult, totalCount,
                     diagCount1, diagCount2, divisors, maxInAnyRow,
                     maxInAnyCol >>
visibilityVars == << vpc, error, hideCount, setsCursorInBackground, dockOverride,
                     suppression, status, calls, vLog >>
vars == << facadeVars, classifierVars, visibilityVars >>
notFacadeVars == << classifierVars, visibilityVars >>
notClassifierVars == << facadeVars, visibilityVars >>
notVisibilityVars == << facadeVars, classifierVars >>

NoBlock == [state |-> "none", len |-> 0, bytes |-> << >>, frees |-> 0]

FacadeInit ==
    /\ pc = "idle"
    /\ err = kCGErrorSuccess
    /\ dataSize = 0
    /\ pixelData = "NULL"
    /\ heap = NoBlock
    /\ cursorSize = << <<0, 1>>, <<0, 1>> >>
    /\ width = 0
    /\ height = 0
    /\ ret = ARROW
    /\ type = ARROW
    /\ events = << >>
    /\ stderrLines = << >>

ClassifierIdle ==
    /\ cpc = "off"
    /\ cPixelData = << >>
    /\ cWidth = 0
    /\ cHeight = 0
    /\ cResult = ARROW
    /\ totalCount = 0
    /\ diagCount1 = 0
    /\ diagCount2 = 0
    /\ divisors = << >>
    /\ maxInAnyRow = 0
    /\ maxInAnyCol = 0

VisibilityIdle ==
    /\ vpc = "off"
    /\ error = kCGErrorSuccess
    /\ hideCount = 0
    /\ setsCursorInBackground = FALSE
    /\ dockOverride = FALSE
    /\ suppression = "default"
    /\ status = 0
    /\ calls = << >>
    /\ vLog = << >>

\* ------------------------------------------------------------------------
\* The cursor service as getCursorType sees it
\* ------------------------------------------------------------------------

\* Largest of the small whole widths and heights the service reports here.
MaxSmallDim == 3

Statuses == {kCGErrorSuccess, kCGErrorFailure}

ReportedWholes ==
    (-1 .. MaxSmallDim) \cup {RowCaseVertical, IBeamHeight, IBeamWidth}

\* CGFloat coordinates n and n + 1/2.
ReportedCoords == { <<2 * n + f, 2>> : n \in ReportedWholes, f \in {0, 1} }

\* Sizes CGSGetGlobalCursorDataSize writes to dataSize.
ReportedSizes ==
    {-BytesPerPixel, 0} \cup
    { BytesPerPixel * d[1] * d[2] :
        d \in { <<1, 1>>, <<MaxSmallDim, MaxSmallDim>>,
                <<IBeamWidth, IBeamHeight>>, <<IBeamWidth, IBeamWidth>> } }

\* What the block holds after a successful CGSGetGlobalCursorData: bytes the
\* service wrote or bytes malloc left there, arbitrary either way.
Contents == { <<"fill", b>> : b \in {0, AlphaThreshold, AlphaThreshold + 1, 255} }
            \cup { <<"ramp", 0>> }

ContentBytes(c, len) ==
    [ i \in 0 .. (len - 1) |->
        IF c[1] = "fill" THEN c[2] ELSE (i \div BytesPerPixel) % 256 ]

\* Values a read past the end of the block can produce.
StrayBytes == {0, 255}

\* ------------------------------------------------------------------------
\* getCurrentCursorType / getCursorType
\* ------------------------------------------------------------------------

\* free(pixelData) on a live block.
Freed(h) ==
    [state |-> "freed", len |-> h.len, bytes |-> << >>, frees |-> h.frees + 1]

\* `CursorType type = getCursorType();` entry, with `int dataSize = 0;`
Call ==
    /\ UNCHANGED notFacadeVars
    /\ pc = "idle"
    /\ pc' = "querySize"
    /\ dataSize' = 0
    /\ pixelData' = "NULL"
    /\ heap' = NoBlock
    /\ cursorSize' = << <<0, 1>>, <<0, 1>> >>
    /\ width' = 0
    /\ height' = 0
    /\ err' = kCGErrorSuccess
    /\ ret' = ARROW
    /\ type' = ARROW
    /\ events' = << >>
    /\ stderrLines' = << >>

\* CGSGetGlobalCursorDataSize and the check of its result.
QuerySize ==
    /\ UNCHANGED notFacadeVars
    /\ pc = "querySize"
    /\ \E e \in Statuses, s \in ReportedSizes :
        /\ err' = e
        /\ dataSize' = s
        /\ IF e # kCGErrorSuccess \/ s <= 0
           THEN /\ stderrLines' = Append(stderrLines, "GCSGetGlobalCursorDataSize failed")
                /\ ret' = FailureReturn
                /\ pc' = "returned"
                /\ events' = Append(events, "sizeFailed")
           ELSE /\ stderrLines' = stderrLines
                /\ ret' = ret
                /\ pc' = "malloc"
                /\ events' = Append(events, "sizeOk")
    /\ UNCHANGED << pixelData, heap, cursorSize, width, height, type >>

\* malloc((size_t)dataSize) and the NULL check; free(NULL) does nothing.
Malloc ==
    /\ UNCHANGED notFacadeVars
    /\ pc = "malloc"
    /\ \E ok \in BOOLEAN :
        IF ok
        THEN /\ pixelData' = "block"
             /\ heap' = [state |-> "live", len |-> dataSize, bytes |-> << >>,
                         frees |-> 0]
             /\ events' = Append(events, "mallocOk")
             /\ pc' = "fetch"
             /\ UNCHANGED << stderrLines, ret >>
        ELSE /\ pixelData' = "NULL"
             /\ heap' = heap
             /\ events' = Append(events, "mallocFailed")
             /\ stderrLines' = Append(stderrLines, "Failed to allocate cursor data buffer")
             /\ ret' = FailureReturn
             /\ pc' = "returned"
    /\ UNCHANGED << err, dataSize, cursorSize, width, height, type >>

\* CGSGetGlobalCursorData, the check of its result, and the two (int) casts.
\* dataSize is passed by address: the service may leave it or overwrite it.
FetchData ==
    /\ UNCHANGED notFacadeVars
    /\ pc = "fetch"
    /\ \E e \in Statuses, n \in {0, dataSize} :
        /\ dataSize' = n
        /\ IF e # kCGErrorSuccess
           THEN
             /\ err' = e
             /\ heap' = Freed(heap)
             /\ events' = events \o << "fetchFailed", "free" >>
             /\ stderrLines' = Append(stderrLines, "CGSGetGlobalCursorData failed")
             /\ ret' = FailureReturn
             /\ pc' = "returned"
             /\ UNCHANGED << cursorSize, width, height >>
           ELSE \E cw \in ReportedCoords, ch \in ReportedCoords, c \in Contents :
             /\ err' = e
             /\ heap' = [heap EXCEPT !.bytes = ContentBytes(c, heap.len)]
             /\ cursorSize' = << cw, ch >>
             /\ width' = IntCast(cw)
             /\ height' = IntCast(ch)
             /\ events' = Append(events, "fetchOk")
             /\ pc' = "decide"
             /\ UNCHANGED << stderrLines, ret >>
    /\ UNCHANGED << pixelData, type >>

\* Faulty variant: the ratio taken in int arithmetic, `width / height == 1`.
RatioIsOneIntDiv(w, h) == h # 0 /\ IntCast(<< w, h >>) = 1

\* `double ratio = (double)width / (double)height; ... if (ratio == 1)`
RatioIsOne(w, h) == DoubleEq(DoubleDiv(w, h), DoubleOne)

\* Faulty variant: the two dimensions of the IBEAM test exchanged.
TakesIBeamSwapped(w, h) == w > 0 /\ h > 0 /\ w = IBeamHeight /\ h = IBeamWidth

\* `if (width > 0 && height > 0) { ... if (width == 23 && height == 22)`
TakesIBeam(w, h) == w > 0 /\ h > 0 /\ w = IBeamWidth /\ h = IBeamHeight

\* Faulty variant: the `width > 0 && height > 0` guard dropped.
TakesClassifierUnguarded(w, h) ==
    ~(w = IBeamWidth /\ h = IBeamHeight) /\ RatioIsOne(w, h)

\* `if (width > 0 && height > 0) { ... if (ratio == 1)`, the IBEAM test
\* having failed.
TakesClassifier(w, h) ==
    w > 0 /\ h > 0 /\ ~(w = IBeamWidth /\ h = IBeamHeight) /\ RatioIsOne(w, h)

\* Faulty variant: `return IBEAM;` without the free before it.
ReturnIBeamLeaks ==
    /\ UNCHANGED notFacadeVars
    /\ pc = "decide"
    /\ TakesIBeam(width, height)
    /\ ret' = IBEAM
    /\ pc' = "returned"
    /\ UNCHANGED << err, dataSize, pixelData, heap, cursorSize, width, height,
                    type, events, stderrLines >>

\* `free(pixelData); return IBEAM;`
ReturnIBeam ==
    /\ UNCHANGED notFacadeVars
    /\ pc = "decide"
    /\ TakesIBeam(width, height)
    /\ heap' = Freed(heap)
    /\ events' = Append(events, "free")
    /\ ret' = IBEAM
    /\ pc' = "returned"
    /\ UNCHANGED << err, dataSize, pixelData, cursorSize, width, height, type,
                    stderrLines >>

\* Offsets determineResizeDirection reads: (y * width + x) * 4.
ReadOffsets(w, h) ==
    { (y * w + x) * BytesPerPixel : x \in 0 .. (w - 1), y \in 0 .. (h - 1) }

\* The memory behind pixelData as a read sees it: the block, then whatever
\* lies past its end.
Memory(h, top, stray) ==
    [ i \in 0 .. top |-> IF i < h.len THEN h.bytes[i] ELSE stray ]

\* `result = determineResizeDirection(pixelData, width, height);
\*  free(pixelData); return result;`
\* A read past the end of the block is undefined: it traps, or it yields
\* some byte.
Classify ==
    /\ UNCHANGED notFacadeVars
    /\ pc = "decide"
    /\ TakesClassifier(width, height)
    /\ LET top == (width * height - 1) * BytesPerPixel
       IN  \/ /\ top >= heap.len
              /\ pc' = "crashed"
              /\ events' = Append(events, "classify")
              /\ UNCHANGED << heap, ret >>
           \/ \E stray \in (IF top >= heap.len THEN StrayBytes ELSE {0}) :
              /\ ret' = determineResizeDirection(Memory(heap, top, stray),
                                                 width, height)
              /\ heap' = Freed(heap)
              /\ events' = events \o << "classify", "free" >>
              /\ pc' = "returned"
    /\ UNCHANGED << err, dataSize, pixelData, cursorSize, width, height, type,
                    stderrLines >>

\* `free(pixelData); return ARROW;`
ReturnArrow ==
    /\ UNCHANGED notFacadeVars
    /\ pc = "decide"
    /\ ~TakesIBeam(width, height)
    /\ ~TakesClassifier(width, height)
    /\ heap' = Freed(heap)
    /\ events' = Append(events, "free")
    /\ ret' = ARROW
    /\ pc' = "returned"
    /\ UNCHANGED << err, dataSize, pixelData, cursorSize, width, height, type,
                    stderrLines >>

\* `CursorType type = getCursorType(); return type;`
Return ==
    /\ UNCHANGED notFacadeVars
    /\ pc = "returned"
    /\ type' = ret
    /\ pc' = "idle"
    /\ UNCHANGED << err, dataSize, pixelData, heap, cursorSize, width, height,
                    ret, events, stderrLines >>

Next ==
    \/ Call
    \/ QuerySize
    \/ Malloc
    \/ FetchData
    \/ ReturnIBeam
    \/ Classify
    \/ ReturnArrow
    \/ Return

Init == FacadeInit /\ ClassifierIdle /\ VisibilityIdle

Spec == Init /\ [][Next]_vars

\* ------------------------------------------------------------------------
\* Properties of getCursorType (specification Spec)
\* ------------------------------------------------------------------------

Occurrences(seq, e) == Cardinality({ i \in DOMAIN seq : seq[i] = e })

Has(seq, e) == \E i \in DOMAIN seq : seq[i] = e

\* The run is over: getCursorType has returned.
RunOver == pc = "returned" \/ (pc = "idle" /\ events # << >>)

\* The run took one of the three failure paths.
RunFailed ==
    Has(events, "sizeFailed") \/ Has(events, "mallocFailed")
        \/ Has(events, "fetchFailed")

\* C1: a block that malloc returned is freed exactly once by the time
\* getCursorType returns, on every path; it is never freed twice, never
\* freed when none was allocated, and never read after the free.
C1_ReleasedExactlyOnce ==
    /\ heap.frees <= 1
    /\ Occurrences(events, "free") = heap.frees
    /\ (RunOver /\ Has(events, "mallocOk")) =>
            (heap.frees = 1 /\ heap.state = "freed")
    /\ ~Has(events, "mallocOk") => (heap.frees = 0 /\ heap.state = "none")
    /\ \A i, j \in DOMAIN events :
            (events[i] = "free" /\ events[j] = "classify") => j < i

\* C1 witness: a run through the classifier has returned with its block
\* freed once.
C1_Witness ==
    /\ pc = "returned"
    /\ Has(events, "classify")
    /\ heap.frees = 1

\* C2 (as claimed): after a failed query the value returned is 1 and is the
\* value of no named category of CursorType.
C2_SentinelIsNoCategory ==
    (pc = "idle" /\ RunFailed) =>
        (type = FailureReturn /\ type \notin CursorType)

\* C3: with size query, allocation and fetch successful and width 23,
\* height 22, the result is IBEAM and the classifier was not invoked, for
\* every content of the buffer.
C3_IBeamShortCircuit ==
    (RunOver /\ Has(events, "fetchOk") /\ width = 23 /\ height = 22) =>
        /\ ret = IBEAM
        /\ pc = "idle" => type = IBEAM
        /\ ~Has(events, "classify")

\* C3 witness: a 23x22 query has returned IBEAM to the caller.
C3_Witness ==
    /\ pc = "idle"
    /\ Has(events, "fetchOk")
    /\ width = 23 /\ height = 22
    /\ type = IBEAM

\* C4: with size query, allocation and fetch successful, width # height
\* and not 23x22, the result is ARROW whatever the buffer holds, also when
\* width or height is zero or negative.
C4_NonSquareIsArrow ==
    (RunOver /\ Has(events, "fetchOk") /\ width # height
        /\ ~(width = 23 /\ height = 22)) =>
        /\ ret = ARROW
        /\ pc = "idle" => type = ARROW
        /\ ~Has(events, "classify")

\* C4 witness: a query with a non-positive dimension and another with both
\* positive and unequal return ARROW; this is the first kind.
C4_Witness ==
    /\ pc = "idle"
    /\ Has(events, "fetchOk")
    /\ width > height /\ height <= 0
    /\ type = ARROW

\* C9: determineResizeDirection is invoked at most once per run, and only
\* after size query, allocation and fetch have succeeded, in that order,
\* with width = height and both positive.
C9_ClassifierOnlyForSquare ==
    /\ Occurrences(events, "classify") <= 1
    /\ Has(events, "classify") =>
        /\ Len(events) >= 4
        /\ SubSeq(events, 1, 4) = << "sizeOk", "mallocOk", "fetchOk", "classify" >>
        /\ err = kCGErrorSuccess
        /\ heap.len > 0
        /\ pixelData = "block"
        /\ width = height
        /\ width > 0 /\ height > 0

\* C9 witness: the classifier ran on a square bitmap and the run returned.
C9_Witness ==
    /\ pc = "returned"
    /\ Has(events, "classify")
    /\ width = height /\ width > 1

\* C10 (as claimed): whenever the classifier is invoked, the block is
\* width * height * 4 bytes long and holds every offset the classifier
\* reads.
C10_BufferCoversReads ==
    Has(events, "classify") =>
        /\ heap.len = width * height * 4
        /\ \A o \in ReadOffsets(width, height) : o < heap.len

\* ------------------------------------------------------------------------
\* determineResizeDirection on square buffers of length width * height * 4
\* ------------------------------------------------------------------------

\* Largest width (= height) of the buffers classified.
MaxWidth == 16

ClassifierWidths == {1, 2, 3, MaxWidth}

\* A picture: a solid rectangle of opaque pixels standing on the bottom edge
\* and at most one more opaque pixel in the top row (on the main diagonal,
\* beside it, or on the anti-diagonal), on a transparent ground.
ExtraPixels(w) == { <<-1, -1>>, <<0, 0>>, <<1, 0>>, <<w - 1, 0>> }

Pictures(w) ==
    { [x0 |-> x0, rw |-> rw, rh |-> rh, ex |-> e[1], ey |-> e[2]] :
        x0 \in 0 .. (w - 1), rw \in 0 .. w, rh \in 0 .. w, e \in ExtraPixels(w) }

WellFormed(p, w) ==
    /\ p.x0 + p.rw <= w
    /\ (p.rw = 0) = (p.rh = 0)
    /\ (p.rw = 0) => (p.x0 = 0)
    /\ p.ex < w

InPicture(p, w, x, y) ==
    \/ x >= p.x0 /\ x < p.x0 + p.rw /\ y >= w - p.rh
    \/ x = p.ex /\ y = p.ey

\* The buffer of a picture. The first byte of a pixel carries its alpha: 11
\* or 255 when opaque, 10 or 0 when not, by the parity of x + y. The other
\* three bytes carry the opposite.
PictureBytes(p, w) ==
    [ i \in 0 .. (w * w * BytesPerPixel - 1) |->
        LET px == i \div BytesPerPixel
            x == px % w
            y == px \div w
            even == (x + y) % 2 = 0
        IN  IF (i % BytesPerPixel = 0) = InPicture(p, w, x, y)
            THEN (IF even THEN AlphaThreshold + 1 ELSE 255)
            ELSE (IF even THEN AlphaThreshold ELSE 0) ]

ClassifierInit ==
    /\ cpc = "entry"
    /\ \E w \in ClassifierWidths :
        /\ cWidth = w
        /\ cHeight = w
        /\ \E p \in Pictures(w) :
            /\ WellFormed(p, w)
            /\ cPixelData = PictureBytes(p, w)
    /\ cResult = ARROW
    /\ totalCount = 0
    /\ diagCount1 = 0
    /\ diagCount2 = 0
    /\ divisors = << >>
    /\ maxInAnyRow = 0
    /\ maxInAnyCol = 0

\* One call of determineResizeDirection(cPixelData, cWidth, cHeight).
ClassifyBuffer ==
    /\ UNCHANGED notClassifierVars
    /\ cpc = "entry"
    /\ \E run \in { determineResizeDirectionRun(cPixelData, cWidth, cHeight) } :
           /\ totalCount' = run.counts[1]
           /\ diagCount1' = run.counts[2]
           /\ diagCount2' = run.counts[3]
           /\ divisors' = run.divisors
           /\ maxInAnyRow' = run.maxInAnyRow
           /\ maxInAnyCol' = run.maxInAnyCol
           /\ cResult' = run.result
           /\ cpc' = run.phase
    /\ UNCHANGED << cPixelData, cWidth, cHeight >>

InitClassifier == FacadeInit /\ ClassifierInit /\ VisibilityIdle

NextClassifier == ClassifyBuffer

SpecClassifier == InitClassifier /\ [][NextClassifier]_vars

\* ------------------------------------------------------------------------
\* Properties of determineResizeDirection (specification SpecClassifier)
\* ------------------------------------------------------------------------

Returned == cpc \in {"diagonal", "rowcol"}

\* The opaque pixels of the buffer, read off its bytes: pixel (x, y) has its
\* alpha-bearing byte at (y * width + x) * 4 and is opaque above 10.
OpaquePixels ==
    { q \in (0 .. (cWidth - 1)) \X (0 .. (cHeight - 1)) :
        cPixelData[(q[2] * cWidth + q[1]) * 4] > 10 }

OnMainDiagonal(S) == { q \in S : q[1] = q[2] }

OnAntiDiagonal(S) == { q \in S : q[1] = cWidth - q[2] - 1 }

LargestOf(S) == CHOOSE m \in S : \A n \in S : n <= m

\* Largest number of opaque pixels in one row, and in one column.
MostInARow(S) ==
    LargestOf({ Cardinality({ q \in S : q[2] = y }) : y \in 0 .. (cHeight - 1) })

MostInAColumn(S) ==
    LargestOf({ Cardinality({ q \in S : q[1] = x }) : x \in 0 .. (cWidth - 1) })

\* No opaque pixel on the main diagonal, and the opaque pixels on the
\* anti-diagonal are 4% of all of them.
DiagonalSignature(S) ==
    /\ S # {}
    /\ OnMainDiagonal(S) = {}
    /\ 25 * Cardinality(OnAntiDiagonal(S)) = Cardinality(S)

\* C5: on a square buffer whose alpha-bearing bytes are all at or below 10,
\* the function counts total = 0, divides nothing, goes on to the row/column
\* test with maxRow = maxCol = 0 and returns OTHER.
C5_AllTransparentIsOther ==
    (Returned /\ OpaquePixels = {}) =>
        /\ totalCount = 0
        /\ divisors = << >>
        /\ cpc = "rowcol"
        /\ maxInAnyRow = 0 /\ maxInAnyCol = 0
        /\ cResult = OTHER_

\* C5 witness: a buffer wider than one pixel with bytes at the threshold
\* and none above it has been classified OTHER.
C5_Witness ==
    /\ Returned
    /\ OpaquePixels = {}
    /\ cWidth > 1
    /\ \E i \in DOMAIN cPixelData : i % 4 = 0 /\ cPixelData[i] = 10
    /\ cResult = OTHER_

\* C6: on a square buffer with an opaque pixel, the result is
\* DIAGONAL_RESIZE exactly when no opaque pixel is on the main diagonal and
\* 25 * (opaque pixels on the anti-diagonal) = (opaque pixels); the
\* row/column test does not run then, whatever the fullest row holds.
C6_DiagonalExactly ==
    (Returned /\ OpaquePixels # {}) =>
        \A S \in { OpaquePixels } :
            /\ (cResult = DIAGONAL_RESIZE) = DiagonalSignature(S)
            /\ DiagonalSignature(S) => cpc = "diagonal"
            /\ totalCount = Cardinality(S)
            /\ diagCount1 = Cardinality(OnMainDiagonal(S))
            /\ diagCount2 = Cardinality(OnAntiDiagonal(S))

\* C6 witness: a buffer with the signature whose fullest row holds 6 or 8
\* opaque pixels is classified DIAGONAL_RESIZE.
C6_Witness ==
    /\ Returned
    /\ cResult = DIAGONAL_RESIZE
    /\ MostInARow(OpaquePixels) \in {6, 8, 10, 14}

\* The result the row/column table gives.
TableResult(maxRow, maxCol) ==
    IF maxRow = 6 THEN VERTICAL_RESIZE
    ELSE IF maxRow = 8 \/ maxRow = 10 THEN HORIZONTAL_RESIZE
    ELSE IF maxRow = 14 /\ maxCol = 13 THEN POINTER
    ELSE IF maxRow = 14 THEN VERTICAL_RESIZE
    ELSE OTHER_

\* C7: on a square buffer without the diagonal signature the result is the
\* table's for the fullest row and the fullest column: 6 gives
\* VERTICAL_RESIZE, 8 and 10 HORIZONTAL_RESIZE, 14 POINTER when the fullest
\* column holds 13 and VERTICAL_RESIZE otherwise, anything else OTHER; never
\* ARROW or IBEAM.
C7_RowColumnTable ==
    Returned =>
        \A S \in { OpaquePixels } :
            ~DiagonalSignature(S) =>
                /\ maxInAnyRow = MostInARow(S)
                /\ maxInAnyCol = MostInAColumn(S)
                /\ cResult = TableResult(maxInAnyRow, maxInAnyCol)
                /\ cResult \notin {ARROW, IBEAM}

\* C7 witness: fullest row 14, fullest column 13, classified POINTER.
C7_Witness ==
    /\ Returned
    /\ MostInARow(OpaquePixels) = 14
    /\ MostInAColumn(OpaquePixels) = 13
    /\ cResult = POINTER

\* ------------------------------------------------------------------------
\* hideCursor / showCursor / notTodayDock
\* ------------------------------------------------------------------------

\* Cap on the display's hide count, which CGDisplayHideCursor increments
\* without limit.
MaxHideCount == 4

\* Faulty variant: `return error;`.
StatusEscalated(e) == e

\* `return 0;` of hideCursor and of showCursor, whatever `error` holds.
StatusReturned(e) == 0

\* `if (error != kCGErrorSuccess) fprintf(stderr, ...)`
ErrorLines(e, line) ==
    IF e # kCGErrorSuccess THEN << line >> ELSE << >>

\* CGEventSourceCreate; CGEventSourceSetLocalEventsSuppressionInterval(ref, 0);
\* `if (eventSourceRef) CFRelease(eventSourceRef);`
\* src is whether CGEventSourceCreate returned a source.
ResetSuppression(src) ==
    << "CGEventSourceCreate",
       "CGEventSourceSetLocalEventsSuppressionInterval" >>
    \o (IF src THEN << "CFRelease" >> ELSE << >>)

\* The interval in force on the source the call was given: 0 on a source,
\* nothing set without one.
SuppressionAfter(src) == IF src THEN "0" ELSE "none"

VisibilityInit ==
    /\ vpc = "idle"
    /\ error = kCGErrorSuccess
    /\ hideCount = 0
    /\ setsCursorInBackground = FALSE
    /\ dockOverride = FALSE
    /\ suppression = "default"
    /\ status = 0
    /\ calls = << >>
    /\ vLog = << >>

hideCursor ==
    /\ UNCHANGED notVisibilityVars
    /\ vpc \in {"idle", "hideCursor", "showCursor", "notTodayDock"}
    /\ \E e \in Statuses, src \in BOOLEAN :
        /\ e = kCGErrorSuccess => hideCount < MaxHideCount
        /\ setsCursorInBackground' = TRUE
        /\ error' = e
        /\ hideCount' = IF e = kCGErrorSuccess THEN hideCount + 1
                        ELSE hideCount
        /\ vLog' = ErrorLines(e, "CGDisplayHideCursor failed")
        /\ calls' = << "CFStringCreateWithCString", "CGSSetConnectionProperty",
                       "CFRelease", "CGDisplayHideCursor" >>
                    \o ResetSuppression(src)
        /\ suppression' = SuppressionAfter(src)
        /\ status' = StatusReturned(e)
    /\ vpc' = "hideCursor"
    /\ UNCHANGED dockOverride

showCursor ==
    /\ UNCHANGED notVisibilityVars
    /\ vpc \in {"idle", "hideCursor", "showCursor", "notTodayDock"}
    /\ \E e \in Statuses, src \in BOOLEAN :
        /\ error' = e
        /\ hideCount' = IF e = kCGErrorSuccess /\ hideCount > 0
                        THEN hideCount - 1 ELSE hideCount
        /\ vLog' = ErrorLines(e, "CGDisplayShowCursor failed")
        /\ calls' = << "CGDisplayShowCursor" >> \o ResetSuppression(src)
        /\ suppression' = SuppressionAfter(src)
        /\ status' = StatusReturned(e)
    /\ vpc' = "showCursor"
    /\ UNCHANGED << setsCursorInBackground, dockOverride >>

\* CGSSetDockCursorOverride(_CGSDefaultConnection(), true): each call flips
\* the flag, whatever the boolean passed.
notTodayDock ==
    /\ UNCHANGED notVisibilityVars
    /\ vpc \in {"idle", "hideCursor", "showCursor", "notTodayDock"}
    /\ dockOverride' = ~dockOverride
    /\ calls' = << "CGSSetDockCursorOverride" >>
    /\ vLog' = << >>
    /\ vpc' = "notTodayDock"
    /\ UNCHANGED << error, hideCount, setsCursorInBackground, suppression,
                    status >>

InitVisibility == FacadeInit /\ ClassifierIdle /\ VisibilityInit

NextVisibility ==
    \/ hideCursor
    \/ showCursor
    \/ notTodayDock

SpecVisibility == InitVisibility /\ [][NextVisibility]_vars

\* ------------------------------------------------------------------------
\* Properties of hideCursor and showCursor (specification SpecVisibility)
\* ------------------------------------------------------------------------

\* Position of the first call named c in a sequence of calls, 0 if none.
FirstCall(seq, c) ==
    IF Has(seq, c) THEN CHOOSE i \in DOMAIN seq :
                            seq[i] = c /\ \A j \in 1 .. (i - 1) : seq[j] # c
    ELSE 0

\* C8: hideCursor and showCursor return 0 whether the hide/show command
\* succeeds or fails; a failure writes one line to stderr and nothing else
\* changes course: hideCursor sets the connection property, then hides,
\* then resets the suppression interval; showCursor shows, then resets it.
C8_StatusAlwaysZero ==
    /\ vpc \in {"hideCursor", "showCursor"} =>
        /\ status = 0
        /\ Len(vLog) = (IF error = kCGErrorSuccess THEN 0 ELSE 1)
        /\ Occurrences(calls, "CGEventSourceSetLocalEventsSuppressionInterval") = 1
        /\ suppression \in {"0", "none"}
        /\ Has(calls, "CFRelease") /\ calls[Len(calls)] = "CFRelease"
                => suppression = "0"
    /\ vpc = "hideCursor" =>
        /\ setsCursorInBackground
        /\ 0 < FirstCall(calls, "CGSSetConnectionProperty")
        /\ FirstCall(calls, "CGSSetConnectionProperty")
                < FirstCall(calls, "CGDisplayHideCursor")
        /\ FirstCall(calls, "CGDisplayHideCursor")
                < FirstCall(calls, "CGEventSourceSetLocalEventsSuppressionInterval")
        /\ Occurrences(calls, "CGDisplayHideCursor") = 1
    /\ vpc = "showCursor" =>
        /\ calls[1] = "CGDisplayShowCursor"
        /\ Occurrences(calls, "CGDisplayShowCursor") = 1
        /\ 1 < FirstCall(calls, "CGEventSourceSetLocalEventsSuppressionInterval")

\* C8 witness: hideCursor has returned 0 after a failed hide command, the
\* failure logged and the interval reset.
C8_Witness ==
    /\ vpc = "hideCursor"
    /\ error # kCGErrorSuccess
    /\ status = 0
    /\ Len(vLog) = 1
    /\ suppression = "0"

====
